---- MODULE Spec2Model ----
(***************************************************************************)
(* Model of app2.py: the module-level loader of data_dashboard_large.xlsx  *)
(* (lines 17-45) and the Dash callback update_all (lines 197-342), which   *)
(* filters the table df and computes every aggregate shown on the page.    *)
(*                                                                         *)
(* Numbers: amounts are integers (cents), a mean is the exact fraction     *)
(* <<sum, count>>, a percentage rounded to 2 decimals is an integer number *)
(* of hundredths of a percent.  Time: a timestamp is an integer number of  *)
(* ticks, TicksPerDay ticks to the calendar day; tick 0 of a day is its    *)
(* midnight and the last tick its last instant.                            *)
(***************************************************************************)
EXTENDS Integers, Sequences, FiniteSets, TLC

VARIABLES file,     \* the source on disk: [exists, cols, rows]
          pc,       \* position of the module-level code
          columns,  \* df.columns
          df,       \* the module-level table
          exitMsg,  \* {} or {the diagnostic the process ended with}
          view,     \* {} or {what the last update_all returned}
          call,     \* per request thread: {} or {the invocation in progress}
          loaded    \* the Dataset as the loader left it (history)

vars == <<file, pc, columns, df, exitMsg, view, call, loaded>>

----------------------------------------------------------------------------
\* Bounds of the model.

\* rows of a source file in the date and grouping profiles
MaxRows == 2
\* calendar days 0..MaxDay carry records
MaxDay == 2
\* rows of a source file in the satisfaction profile
MaxSatRows == 6
\* distinct products of a source file in the product profile
MaxProducts == 6

----------------------------------------------------------------------------
\* Values.

\* pandas' NaT, the timestamp of a cell that is no date.
NaT == -1

\* The instants of one calendar day: its midnight and its last instant.
Ticks == {0, 1}
TicksPerDay == Cardinality(Ticks)

\* pd.Timedelta(days = n), in ticks.
Timedelta(days) == days * TicksPerDay

\* pd.to_datetime of a calendar date (a picker value): that day's midnight.
to_datetime_date(d) == d * TicksPerDay

\* Series.dt.date: the calendar day of a timestamp, NaT for NaT.
dt_date(ts) == IF ts = NaT THEN NaT ELSE ts \div TicksPerDay

\* A cell of the sheet as openpyxl delivers it.
Num(n)  == [t |-> "num",   n |-> n, s |-> ""]
Text(s) == [t |-> "text",  n |-> 0, s |-> s]
Stamp(n) == [t |-> "ts",   n |-> n, s |-> ""]
Blank   == [t |-> "blank", n |-> 0, s |-> ""]

\* Python's order on the strings of the model (code points: "" first, upper
\* case before lower case), which groupby and sorted() use.
StrOrder == <<"", "A", "B", "P", "Q", "X", "Y", "abc", "c1", "nan",
              "p1", "p2", "p3", "p4", "p5", "p6", "p7", "p8">>

Ord(s) == CHOOSE i \in 1..Len(StrOrder) : StrOrder[i] = s

\* The digits-only texts of the model and the numbers they denote.
NumericText == [x \in {"7"} |-> 7]

\* pd.to_numeric(errors = 'coerce') of one cell, as {} (NaN) or {number}.
to_numeric(c) ==
    CASE c.t = "num" -> {c.n}
      [] c.t = "text" /\ c.s \in DOMAIN NumericText -> {NumericText[c.s]}
      [] OTHER -> {}

\* Series.fillna(v) of one converted cell: v where it is missing ({}).
fillna(x, v) == IF x = {} THEN v ELSE CHOOSE n \in x : TRUE

\* Series.astype(str) of one cell, as {} (missing) or {text}: str() of every
\* value, and str() of a missing cell (NaN) is the text "nan", which is
\* a value and not missing any more.
astype_str(c) ==
    CASE c.t = "text" -> {c.s}
      [] c.t = "blank" -> {"nan"}
      [] OTHER -> {ToString(c.n)}

\* pd.to_datetime(errors = 'coerce') / parse_dates of one cell.
to_datetime(c) == IF c.t = "ts" THEN c.n ELSE NaT

----------------------------------------------------------------------------
\* 1) Chargement du dataset (lines 17-45).

expected_cols == {"ID_Client", "Date_Transaction", "Montant", "Magasin",
                  "Categorie_Produit", "Quantite", "Mode_Paiement",
                  "Satisfaction_Client"}

\* Lines 34-45 on one row of the sheet.  Quantite and Satisfaction_Client
\* are whole numbers in the model, on which astype(int) changes nothing.
\* Produit, when the sheet has it, is left as read.  Date_Transaction is
\* converted by read_excel (parse_dates) when every cell is a date, and by
\* line 42 otherwise: either way a date cell gives its timestamp and any other
\* cell NaT.
Clean(r) ==
    LET ts == to_datetime(r.Date_Transaction)
    IN  [ID_Client           |-> fillna(astype_str(r.ID_Client), ""),
         Date_Transaction    |-> ts,
         Montant             |-> fillna(to_numeric(r.Montant), 0),
         Magasin             |-> fillna(astype_str(r.Magasin), ""),
         Categorie_Produit   |-> fillna(astype_str(r.Categorie_Produit), ""),
         Quantite            |-> fillna(to_numeric(r.Quantite), 0),
         Mode_Paiement       |-> fillna(astype_str(r.Mode_Paiement), ""),
         Satisfaction_Client |-> fillna(to_numeric(r.Satisfaction_Client), 0),
         Date_only           |-> dt_date(ts),
         Produit             |-> r.Produit]

\* Lines 18-20: the file is not there; sys.exit with the not-found message.
LoadNotFound ==
    /\ pc = "start"
    /\ ~file.exists
    /\ pc' = "exit"
    /\ exitMsg' = {[kind |-> "introuvable", missing |-> {}, expected |-> {}]}
    /\ UNCHANGED <<file, columns, df, view, call, loaded>>

\* Line 23: pd.read_excel(..., parse_dates=["Date_Transaction"]).  pandas
\* raises ValueError ("Missing column provided to 'parse_dates'") when the
\* sheet has no such column; no handler catches it and the process ends with
\* that traceback.
ReadExcel ==
    /\ pc = "start"
    /\ file.exists
    /\ IF "Date_Transaction" \in file.cols
         THEN /\ df' = file.rows
              /\ columns' = file.cols
              /\ pc' = "read"
              /\ UNCHANGED exitMsg
         ELSE /\ pc' = "exit"
              /\ exitMsg' = {[kind |-> "ValueError", missing |-> {},
                              expected |-> {}]}
              /\ UNCHANGED <<df, columns>>
    /\ UNCHANGED <<file, view, call, loaded>>

\* Lines 26-31: the strict column check; sys.exit names the set
\* expected_cols - set(df.columns) and the expected columns.
CheckColumns ==
    /\ pc = "read"
    /\ LET missing == expected_cols \ columns
       IN  IF missing # {}
           THEN /\ pc' = "exit"
                /\ exitMsg' = {[kind |-> "colonnes manquantes",
                                missing |-> missing,
                                expected |-> expected_cols]}
           ELSE /\ pc' = "checked"
                /\ UNCHANGED exitMsg
    /\ UNCHANGED <<file, columns, df, view, call, loaded>>

\* Lines 34-45: the conversions, and the Date_only column.
Coerce ==
    /\ pc = "checked"
    /\ df' = [i \in 1..Len(df) |-> Clean(df[i])]
    /\ columns' = columns \cup {"Date_only"}
    /\ loaded' = df'
    /\ pc' = "ready"
    /\ UNCHANGED <<file, exitMsg, view, call>>

----------------------------------------------------------------------------
\* pandas operations used by update_all.

RECURSIVE SumSeq(_)
SumSeq(s) == IF s = <<>> THEN 0 ELSE Head(s) + SumSeq(Tail(s))

\* The elements of the finite set S as a sequence, ascending by rank(_),
\* which is one-to-one on S.
SortAsc(S, rank(_)) ==
    [p \in 1..Cardinality(S) |->
        CHOOSE x \in S : Cardinality({y \in S : rank(y) < rank(x)}) = p - 1]

\* Series[col] of the rows of d, and that of the rows where by = k.
Column(d, col) == [i \in 1..Len(d) |-> d[i][col]]
ColumnWhere(d, by, k, col) ==
    LET IsK(r) == r[by] = k IN Column(SelectSeq(d, IsK), col)

\* DataFrame.groupby(by)[col] with sum and count per group: one entry per
\* value of the string column by, ascending by key (groupby sorts its keys).
\* sum is the fraction num/1, mean the fraction num/den.
groupby_sum(d, by, col) ==
    LET keys == SortAsc({d[i][by] : i \in 1..Len(d)}, Ord)
    IN  [g \in 1..Len(keys) |->
            [key |-> keys[g],
             num |-> SumSeq(ColumnWhere(d, by, keys[g], col)),
             den |-> 1]]

groupby_mean(d, by, col) ==
    LET keys == SortAsc({d[i][by] : i \in 1..Len(d)}, Ord)
    IN  [g \in 1..Len(keys) |->
            [key |-> keys[g],
             num |-> SumSeq(ColumnWhere(d, by, keys[g], col)),
             den |-> Len(ColumnWhere(d, by, keys[g], col))]]

\* Series.sort_values(ascending=False) of entries with values num/den,
\* den > 0.  pandas sorts the reversed series ascending and reverses the
\* outcome, so that entries of equal value keep the order they came in (the
\* sort of a series this short is an insertion sort, which is stable).
sort_values_desc(s) ==
    LET n == Len(s)
        Before(i, j) ==
            \/ s[i].num * s[j].den > s[j].num * s[i].den
            \/ s[i].num * s[j].den = s[j].num * s[i].den /\ i < j
        pos(i) == 1 + Cardinality({j \in 1..n : Before(j, i)})
    IN  [p \in 1..n |-> s[CHOOSE i \in 1..n : pos(i) = p]]

\* Series.value_counts() before its sort: one entry per value, in the order
\* of first appearance, with the number of rows holding it.
FirstIndex(s, v) == CHOOSE i \in 1..Len(s) :
                        s[i] = v /\ \A j \in 1..(i - 1) : s[j] # v
CountOf(s, v) == Cardinality({i \in 1..Len(s) : s[i] = v})
counts_by_appearance(s) ==
    LET First(v) == FirstIndex(s, v)
        keys == SortAsc({s[i] : i \in 1..Len(s)}, First)
    IN  [g \in 1..Len(keys) |->
            [key |-> keys[g], num |-> CountOf(s, keys[g]), den |-> 1]]

\* Series.value_counts(): descending by count.
value_counts(s) == sort_values_desc(counts_by_appearance(s))

\* Series.tail(n): the last n entries.
tail(s, n) == SubSeq(s, IF Len(s) < n THEN 1 ELSE Len(s) - n + 1, Len(s))

\* Series.head(n).
head(s, n) == SubSeq(s, 1, IF Len(s) < n THEN Len(s) ELSE n)

\* A percentage cut, not rounded, to 2 decimals.
trunc2_pct(count, total) == (count * 10000) \div total

\* numpy's round to 2 decimals of count / total * 100, in hundredths of a
\* percent: the nearest integer to count * 10000 / total, a tie to the even
\* one.
round2_pct(count, total) ==
    LET x == count * 10000
        q == x \div total
        r == x % total
    IN  IF 2 * r < total THEN q
        ELSE IF 2 * r > total THEN q + 1
        ELSE IF q % 2 = 0 THEN q ELSE q + 1

----------------------------------------------------------------------------
\* 3) Callback update_all (lines 197-342).

\* head(5) of line 278.
TopN == 5

\* A comparison in which NaT passes.
ts_ge_nat_passes(ts, bound) == ts = NaT \/ ts >= bound

\* A comparison with NaT is False.
ts_ge(ts, bound) == ts # NaT /\ ts >= bound
ts_le(ts, bound) == ts # NaT /\ ts <= bound

\* Lines 200-209 on one row.  A filter value that is None or empty (here: the
\* empty set) is falsy and filters nothing.
Passes(r, S) ==
    /\ S.start_date # {} =>
         \A sd \in S.start_date :
             ts_ge(r.Date_Transaction, to_datetime_date(sd))
    /\ S.end_date # {} =>
         \A ed \in S.end_date :
             ts_le(r.Date_Transaction, to_datetime_date(ed) + Timedelta(1))
    /\ S.stores # {} => r.Magasin \in S.stores
    /\ S.cats # {} => r.Categorie_Produit \in S.cats
    /\ S.pays # {} => r.Mode_Paiement \in S.pays

\* Lines 199-209: dff, the rows of a copy of df that pass every filter.
Filtrage(d, S) == LET Keep(r) == Passes(r, S) IN SelectSeq(d, Keep)

\* Line 225: revenue per calendar day, ascending by day; groupby drops the
\* rows whose key is missing (NaT).
daily_revenue(dff) ==
    LET Id(x) == x
        days == SortAsc({dt_date(dff[i].Date_Transaction) : i \in 1..Len(dff)}
                            \ {NaT}, Id)
        OnDay(k) == LET Is(r) == dt_date(r.Date_Transaction) = k
                    IN  Column(SelectSeq(dff, Is), "Montant")
    IN  [g \in 1..Len(days) |->
            [Date_Transaction |-> days[g], Revenue |-> SumSeq(OnDay(days[g]))]]

\* Line 255 counting the values of Date_Transaction, which can be missing,
\* in place of those of Montant.
store_table_count_dates(dff) ==
    LET t == groupby_mean(dff, "Magasin", "Montant")
        Dated(k) == LET Is(r) == r.Magasin = k /\ r.Date_Transaction # NaT
                    IN  Len(SelectSeq(dff, Is))
    IN  [g \in 1..Len(t) |->
            [Magasin |-> t[g].key, Ventes_Totales |-> t[g].num,
             Nb_Transactions |-> Dated(t[g].key)]]

\* Lines 255-256: per store, the sum of Montant and the count of its
\* (never missing) values.
store_table(dff) ==
    LET t == groupby_mean(dff, "Magasin", "Montant")
    IN  [g \in 1..Len(t) |->
            [Magasin |-> t[g].key, Ventes_Totales |-> t[g].num,
             Nb_Transactions |-> t[g].den]]

\* Line 267: sum of Montant per (category, store) present, ascending by
\* category, then store.
stacked_sales(dff) ==
    LET Rank(k) == Ord(k[1]) * (Len(StrOrder) + 1) + Ord(k[2])
        keys == SortAsc({<<dff[i].Categorie_Produit, dff[i].Magasin>> :
                            i \in 1..Len(dff)}, Rank)
        Of(k) == LET Is(r) == r.Categorie_Produit = k[1] /\ r.Magasin = k[2]
                 IN  Column(SelectSeq(dff, Is), "Montant")
    IN  [g \in 1..Len(keys) |->
            [Categorie_Produit |-> keys[g][1], Magasin |-> keys[g][2],
             Montant |-> SumSeq(Of(keys[g]))]]

\* Lines 277-281 for one category: the quantities sold per product (rows
\* with no product dropped by groupby), the 5 largest, ranked 1..k.
top_prod(dff, cat) ==
    LET InCat(r) == r.Categorie_Produit = cat /\ r.Produit.t = "text"
        sub == SelectSeq(dff, InCat)
        named == [i \in 1..Len(sub) |->
                     [Produit |-> sub[i].Produit.s,
                      Quantite |-> sub[i].Quantite]]
        top == head(sort_values_desc(groupby_sum(named, "Produit", "Quantite")),
                    TopN)
    IN  [k \in 1..Len(top) |->
            [Rank |-> k, Produit |-> top[k].key, Quantite |-> top[k].num]]

\* Lines 274-293: the tables of the non-empty categories, in sorted order of
\* category, or one of the two messages.
top_products(dff, cols) ==
    IF "Produit" \in cols
    THEN LET cats == SortAsc({dff[i].Categorie_Produit : i \in 1..Len(dff)},
                             Ord)
             NonEmpty(c) == top_prod(dff, c) # <<>>
             shown == SelectSeq(cats, NonEmpty)
         IN  IF shown = <<>>
             THEN [kind |-> "Aucune donnee produit", tables |-> <<>>]
             ELSE [kind |-> "tables",
                   tables |-> [k \in 1..Len(shown) |->
                                  [Categorie |-> shown[k],
                                   data |-> top_prod(dff, shown[k])]]]
    ELSE [kind |-> "Colonne Produit absente", tables |-> <<>>]

\* Lines 320-324: count per score ascending by score, and its percentage of
\* the rows, rounded to 2 decimals.
sat_table(dff) ==
    LET Id(x) == x
        col == Column(dff, "Satisfaction_Client")
        scores == SortAsc({col[i] : i \in 1..Len(col)}, Id)
        total == IF scores # <<>>
                 THEN SumSeq([g \in 1..Len(scores) |-> CountOf(col, scores[g])])
                 ELSE 1
    IN  [g \in 1..Len(scores) |->
            [score |-> scores[g],
             count |-> CountOf(col, scores[g]),
             pct |-> round2_pct(CountOf(col, scores[g]), total)]]

\* Lines 214-215 with the guard dropped: the mean of no rows, 0/0.
mean_unguarded(sum, nb) == [num |-> sum, den |-> nb]

\* Lines 214-215: the mean of a column of dff, 0.0 when dff has no rows.
mean_or_zero(sum, nb) ==
    IF nb > 0 THEN [num |-> sum, den |-> nb] ELSE [num |-> 0, den |-> 1]

\* Lines 211-324: everything update_all returns, from the filtered rows dff.
\* A figure is the series it draws (<<>>: the empty go.Figure()); a mean is
\* the fraction num/den.
Aggregate(dff, cols) ==
    LET nb == Len(dff)
        pay_counts == value_counts(Column(dff, "Mode_Paiement"))
    IN  [total_ventes |-> SumSeq(Column(dff, "Montant")),
         nb_transactions |-> nb,
         vente_moyenne |-> mean_or_zero(SumSeq(Column(dff, "Montant")), nb),
         satisfaction_moyenne |->
            mean_or_zero(SumSeq(Column(dff, "Satisfaction_Client")), nb),
         daily |-> daily_revenue(dff),
         sales_by_cat |->
            sort_values_desc(groupby_sum(dff, "Categorie_Produit", "Montant")),
         sales_store |-> sort_values_desc(groupby_sum(dff, "Magasin", "Montant")),
         avg_store |-> sort_values_desc(groupby_mean(dff, "Magasin", "Montant")),
         store_table |-> store_table(dff),
         qty_cat |->
            sort_values_desc(groupby_sum(dff, "Categorie_Produit", "Quantite")),
         stacked |-> stacked_sales(dff),
         top_products |-> top_products(dff, cols),
         pay_counts |-> pay_counts,
         top_mode |->
            IF pay_counts = <<>> THEN {}
            ELSE {[mode |-> pay_counts[1].key,
                   pct |-> [num |-> pay_counts[1].num * 100,
                            den |-> SumSeq(Column(pay_counts, "num"))]]},
         sat_store |->
            sort_values_desc(groupby_mean(dff, "Magasin", "Satisfaction_Client")),
         sat_cat |->
            sort_values_desc(groupby_mean(dff, "Categorie_Produit",
                                          "Satisfaction_Client")),
         sat_dist |-> sat_table(dff)]

\* The filter values the page sends in the model: for each end of the period
\* a day or nothing, with no dropdown selection or one in each dropdown; and
\* a selection in one dropdown alone.
NoFilter == [start_date |-> {}, end_date |-> {}, stores |-> {}, cats |-> {},
             pays |-> {}]
FilterSpecs ==
    {[start_date |-> sd, end_date |-> ed, stores |-> sel[1], cats |-> sel[2],
      pays |-> sel[3]] :
        sd \in {{}, {1}}, ed \in {{}, {1}},
        sel \in {<<{}, {}, {}>>, <<{"A"}, {"X"}, {"P"}>>}}
    \cup {[NoFilter EXCEPT !.stores = {"A"}], [NoFilter EXCEPT !.cats = {"X"}],
          [NoFilter EXCEPT !.pays = {"P"}]}

\* One whole invocation of update_all on the filter values S.
UpdateAll(S) ==
    /\ pc = "ready"
    /\ LET dff == Filtrage(df, S)
       IN  view' = {[spec |-> S, dff |-> dff, out |-> Aggregate(dff, columns)]}
    /\ UNCHANGED <<file, pc, columns, df, exitMsg, call, loaded>>

\* The request threads of the server that can run update_all at once.
Workers == {"t1", "t2"}

\* Lines 197-199 of one invocation on a thread: the copy of df it works on.
Begin(w, S) ==
    /\ pc = "ready"
    /\ call[w] = {}
    /\ call' = [call EXCEPT ![w] = {[spec |-> S, dff |-> df, cols |-> columns]}]
    /\ UNCHANGED <<file, pc, columns, df, exitMsg, view, loaded>>

\* Lines 200-342 with the filters applied to the module-level df itself
\* (df = df[...] under a global statement), not to the copy.
FinishInPlace(w) ==
    /\ call[w] # {}
    /\ LET c == CHOOSE c \in call[w] : TRUE
           dff == Filtrage(c.dff, c.spec)
       IN  /\ view' = {[spec |-> c.spec, dff |-> dff,
                        out |-> Aggregate(dff, c.cols)]}
           /\ df' = dff
    /\ call' = [call EXCEPT ![w] = {}]
    /\ UNCHANGED <<file, pc, columns, exitMsg, loaded>>

\* Lines 200-342 of that invocation: the filters on its copy, the
\* aggregates, the return.
Finish(w) ==
    /\ call[w] # {}
    /\ LET c == CHOOSE c \in call[w] : TRUE
           dff == Filtrage(c.dff, c.spec)
       IN  view' = {[spec |-> c.spec, dff |-> dff,
                     out |-> Aggregate(dff, c.cols)]}
    /\ call' = [call EXCEPT ![w] = {}]
    /\ UNCHANGED <<file, pc, columns, df, exitMsg, loaded>>

----------------------------------------------------------------------------
\* Source files.

AllCols == expected_cols \cup {"Produit"}

Sheet(cols, rows) == [exists |-> TRUE, cols |-> cols, rows |-> rows]
NoFile == [exists |-> FALSE, cols |-> {}, rows |-> <<>>]

Seqs(S, n) == UNION {[1..k -> S] : k \in 0..n}

\* A well-formed row.
Base == [ID_Client |-> Text("c1"), Date_Transaction |-> Stamp(TicksPerDay),
         Montant |-> Num(10), Magasin |-> Text("A"),
         Categorie_Produit |-> Text("X"), Quantite |-> Num(1),
         Mode_Paiement |-> Text("P"), Satisfaction_Client |-> Num(3),
         Produit |-> Blank]

\* Files the loader refuses: none, and sheets that lack a column.
BadFiles == {NoFile,
             Sheet(expected_cols \ {"Date_Transaction"}, <<Base>>),
             Sheet(expected_cols \ {"Quantite"}, <<Base>>)}

\* Date profile: every instant of days 0..MaxDay, an unparsable date and a
\* missing one, the latter also in another store.
DateCells == {Stamp(t) : t \in 0..((MaxDay + 1) * TicksPerDay - 1)}
                 \cup {Text("abc"), Blank}
DateRows == {[Base EXCEPT !.Date_Transaction = c] : c \in DateCells}
                \cup {[Base EXCEPT !.Date_Transaction = Blank,
                                   !.Magasin = Text("B")]}

\* Grouping profile: stores, categories, payment modes and amounts.
GroupRows ==
    {[Base EXCEPT !.Magasin = Text(g[1]), !.Categorie_Produit = Text(g[2]),
                  !.Mode_Paiement = Text(g[3]), !.Montant = Num(m)] :
        g \in {<<"A", "X", "P">>, <<"B", "Y", "Q">>,
               <<"B", "X", "P">>, <<"A", "Y", "Q">>},
        m \in {10, 20}}

Files == BadFiles
            \cup {Sheet(expected_cols, rows) : rows \in Seqs(DateRows, MaxRows)}
            \cup {Sheet(expected_cols, rows) : rows \in Seqs(GroupRows, MaxRows)}

InitWith(F) ==
    /\ file \in F
    /\ pc = "start"
    /\ columns = {}
    /\ df = <<>>
    /\ exitMsg = {}
    /\ view = {}
    /\ call = [w \in Workers |-> {}]
    /\ loaded = <<>>

Init == InitWith(Files)

Loader == LoadNotFound \/ ReadExcel \/ CheckColumns \/ Coerce

Next == Loader \/ \E S \in FilterSpecs : UpdateAll(S)

Spec == Init /\ [][Next]_vars

----------------------------------------------------------------------------
\* Properties of the filter and of the aggregates (specification Spec).

\* The dropdown filters of lines 204-209 alone.
CategoricalOK(r, S) ==
    /\ S.stores # {} => r.Magasin \in S.stores
    /\ S.cats # {} => r.Categorie_Produit \in S.cats
    /\ S.pays # {} => r.Mode_Paiement \in S.pays

\* The period with an exclusive upper bound: from the midnight of start_date
\* to just before the midnight that follows end_date.
InPeriodExclusive(r, S) ==
    /\ \A sd \in S.start_date :
          r.Date_Transaction # NaT
          /\ r.Date_Transaction >= to_datetime_date(sd)
    /\ \A ed \in S.end_date :
          r.Date_Transaction # NaT
          /\ r.Date_Transaction < to_datetime_date(ed + 1)

\* C1: the rows update_all keeps are exactly the rows of df that satisfy the
\* dropdown filters and lie in the period, whose upper bound is exclusive:
\* a record at the midnight that follows end_date is not kept.
C1_ExclusiveEnd ==
    \A v \in view :
        LET Keep(r) == CategoricalOK(r, v.spec) /\ InPeriodExclusive(r, v.spec)
        IN  v.dff = SelectSeq(df, Keep)

\* A record at the midnight after end_date is in the Snapshot.
C1_MidnightAfterEndKept ==
    \E v \in view : \E ed \in v.spec.end_date : \E i \in 1..Len(v.dff) :
        v.dff[i].Date_Transaction = to_datetime_date(ed + 1)

\* The rows of df without a timestamp that satisfy the dropdown filters of S,
\* and the rows with a timestamp that pass every filter of S.
UndatedRows(S) ==
    LET Is(r) == r.Date_Transaction = NaT /\ CategoricalOK(r, S)
    IN  SelectSeq(df, Is)
DatedRows(S) ==
    LET Is(r) == r.Date_Transaction # NaT /\ Passes(r, S)
    IN  SelectSeq(df, Is)

\* The aggregates of out that are not keyed by date count exactly the rows
\* of rows; the daily revenue counts exactly the rows of dated.
CountsRows(out, rows, dated) ==
    /\ out.nb_transactions = Len(rows)
    /\ out.total_ventes = SumSeq(Column(rows, "Montant"))
    /\ SumSeq(Column(out.store_table, "Nb_Transactions")) = Len(rows)
    /\ SumSeq(Column(out.store_table, "Ventes_Totales"))
           = SumSeq(Column(rows, "Montant"))
    /\ SumSeq(Column(out.sales_by_cat, "num")) = SumSeq(Column(rows, "Montant"))
    /\ SumSeq(Column(out.pay_counts, "num")) = Len(rows)
    /\ SumSeq(Column(out.daily, "Revenue")) = SumSeq(Column(dated, "Montant"))

\* C2 as stated: whatever the period of the filter, the records without a
\* timestamp that satisfy the dropdown filters are in the KPIs and in the
\* store, category and payment aggregates, and not in the daily revenue.
C2_UndatedAlwaysCounted ==
    \A v \in view :
        CountsRows(v.out, UndatedRows(v.spec) \o DatedRows(v.spec),
                   DatedRows(v.spec))

\* C2 amended: the records without a timestamp are never in the daily
\* revenue; they are in the other aggregates when the filter has neither
\* start_date nor end_date, and in none when it has one.
C2_UndatedCountedWithoutPeriod ==
    \A v \in view :
        LET S == v.spec
            NoPeriod == S.start_date = {} /\ S.end_date = {}
            counted == IF NoPeriod THEN UndatedRows(S) \o DatedRows(S)
                       ELSE DatedRows(S)
        IN  /\ CountsRows(v.out, counted, DatedRows(S))
            /\ \A i \in 1..Len(v.out.daily) :
                  v.out.daily[i].Date_Transaction # NaT
            /\ ~NoPeriod =>
                  \A i \in 1..Len(v.dff) : v.dff[i].Date_Transaction # NaT

\* A record without a timestamp is counted beside a dated one under a filter
\* without period, and the daily revenue holds the dated one only.
C2_Witness ==
    \E v \in view :
        /\ v.spec.start_date = {} /\ v.spec.end_date = {}
        /\ UndatedRows(v.spec) # <<>>
        /\ DatedRows(v.spec) # <<>>
        /\ v.out.nb_transactions = 2
        /\ Len(v.out.daily) = 1

\* C5: the rows of store_table partition the Snapshot: their totals add up
\* to KPI total_ventes, their counts to nb_transactions, and there is
\* exactly one row per store of the Snapshot.
C5_StoreTablePartition ==
    \A v \in view :
        LET t == v.out.store_table
        IN  /\ SumSeq(Column(t, "Ventes_Totales")) = v.out.total_ventes
            /\ SumSeq(Column(t, "Nb_Transactions")) = v.out.nb_transactions
            /\ {t[g].Magasin : g \in 1..Len(t)}
                   = {v.dff[i].Magasin : i \in 1..Len(v.dff)}
            /\ \A g, h \in 1..Len(t) : t[g].Magasin = t[h].Magasin => g = h

\* A Snapshot of two stores, one of them holding a record without a date.
C5_Witness ==
    \E v \in view :
        /\ Len(v.out.store_table) = 2
        /\ \E i \in 1..Len(v.dff) : v.dff[i].Date_Transaction = NaT
        /\ v.out.total_ventes > 0

\* C6: a filter that no record passes gives zero KPIs, every grouped view
\* empty and no top payment mode; the means are 0 and not a division by zero.
C6_EmptySnapshot ==
    \A v \in view :
        Filtrage(df, v.spec) = <<>> =>
            /\ v.out.total_ventes = 0
            /\ v.out.nb_transactions = 0
            /\ v.out.vente_moyenne.num = 0 /\ v.out.vente_moyenne.den > 0
            /\ v.out.satisfaction_moyenne.num = 0
            /\ v.out.satisfaction_moyenne.den > 0
            /\ v.out.daily = <<>>
            /\ v.out.sales_by_cat = <<>>
            /\ v.out.sales_store = <<>>
            /\ v.out.avg_store = <<>>
            /\ v.out.store_table = <<>>
            /\ v.out.qty_cat = <<>>
            /\ v.out.stacked = <<>>
            /\ v.out.pay_counts = <<>>
            /\ v.out.top_mode = {}
            /\ v.out.sat_store = <<>>
            /\ v.out.sat_cat = <<>>
            /\ v.out.sat_dist = <<>>

\* A filter that matches none of the records of a table that has some.
C6_Witness ==
    \E v \in view : df # <<>> /\ v.dff = <<>> /\ v.out.nb_transactions = 0

\* In s, entries of equal value come in ascending order of key.
TiesByKey(s) ==
    \A i, j \in 1..Len(s) :
        i < j /\ s[i].num * s[j].den = s[j].num * s[i].den =>
            Ord(s[i].key) < Ord(s[j].key)

\* C9: in each of the seven views sorted descending by value, groups of
\* equal value come in ascending order of their key.
C9_TiesAscendingKey ==
    \A v \in view :
        /\ TiesByKey(v.out.sales_by_cat)
        /\ TiesByKey(v.out.sales_store)
        /\ TiesByKey(v.out.avg_store)
        /\ TiesByKey(v.out.qty_cat)
        /\ TiesByKey(v.out.pay_counts)
        /\ TiesByKey(v.out.sat_store)
        /\ TiesByKey(v.out.sat_cat)

\* The six views built by groupby do order ties by key.
C9_GroupbyViewsTiesByKey ==
    \A v \in view :
        /\ TiesByKey(v.out.sales_by_cat)
        /\ TiesByKey(v.out.sales_store)
        /\ TiesByKey(v.out.avg_store)
        /\ TiesByKey(v.out.qty_cat)
        /\ TiesByKey(v.out.sat_store)
        /\ TiesByKey(v.out.sat_cat)

----------------------------------------------------------------------------
\* The loader (specification SpecLoad).

\* Sheets with any of three required columns absent, with or without the
\* optional column and a column whose name differs by case only.
ColumnSets ==
    {(AllCols \ drop) \cup extra :
        drop \in SUBSET {"Date_Transaction", "Quantite", "Montant", "Produit"},
        extra \in SUBSET {"quantite"}}

\* Rows with one cell that is missing, not a number or not a date.
DirtyRows ==
    {Base}
    \cup {[Base EXCEPT ![c] = Blank] :
            c \in {"ID_Client", "Date_Transaction", "Montant", "Magasin",
                   "Categorie_Produit", "Quantite", "Mode_Paiement",
                   "Satisfaction_Client"}}
    \cup {[Base EXCEPT ![c] = Text("abc")] :
            c \in {"Date_Transaction", "Montant", "Quantite",
                   "Satisfaction_Client"}}
    \cup {[Base EXCEPT !.Montant = Text("7")]}

LoadFiles == {NoFile}
                \cup {Sheet(cols, <<Base>>) : cols \in ColumnSets}
                \cup {Sheet(expected_cols, rows) :
                        rows \in Seqs(DirtyRows, MaxRows)}

InitLoad == InitWith(LoadFiles)

SpecLoad == InitLoad /\ [][Next]_vars

\* The cell holds no usable value for a numeric column.
NotANumber(c) == to_numeric(c) = {}

\* C7: after the loader has run, df has one record per row of the sheet, a
\* missing or unparsable Montant, Quantite or Satisfaction_Client is 0, and a
\* missing ID_Client, Magasin, Categorie_Produit or Mode_Paiement is the
\* empty string.
C7_DefaultsAfterLoad ==
    pc = "ready" =>
        /\ Len(df) = Len(file.rows)
        /\ \A i \in 1..Len(df) :
              /\ \A c \in {"Montant", "Quantite", "Satisfaction_Client"} :
                    NotANumber(file.rows[i][c]) => df[i][c] = 0
              /\ \A c \in {"ID_Client", "Magasin", "Categorie_Produit",
                           "Mode_Paiement"} :
                    file.rows[i][c] = Blank => df[i][c] = ""

\* A loaded table with a row whose store was missing in the sheet.
C7_MissingStoreLoaded ==
    /\ pc = "ready"
    /\ \E i \in 1..Len(df) : file.rows[i].Magasin = Blank

\* The numeric half of C7, which the loader does satisfy.
C7_NumericDefaults ==
    pc = "ready" =>
        /\ Len(df) = Len(file.rows)
        /\ \A i \in 1..Len(df) :
              \A c \in {"Montant", "Quantite", "Satisfaction_Client"} :
                  NotANumber(file.rows[i][c]) => df[i][c] = 0

\* C8: a sheet that lacks a required column ends the process before any
\* conversion and before any query, with the message that names exactly the
\* required columns the sheet lacks, and the expected ones; an absent file
\* ends it with the not-found message.
C8_SchemaDiagnostic ==
    /\ ~file.exists /\ pc # "start" =>
          /\ pc = "exit"
          /\ \A m \in exitMsg : m.kind = "introuvable"
    /\ file.exists /\ expected_cols \ file.cols # {} =>
          /\ pc \in {"start", "read", "exit"}
          /\ pc = "exit" =>
                exitMsg = {[kind |-> "colonnes manquantes",
                            missing |-> expected_cols \ file.cols,
                            expected |-> expected_cols]}
    /\ pc = "exit" => view = {} /\ loaded = <<>> /\ exitMsg # {}

\* The process has ended on a sheet that lacks Date_Transaction.
C8_NoDateColumnExit ==
    /\ pc = "exit"
    /\ file.exists
    /\ "Date_Transaction" \notin file.cols

\* What C8 says of every sheet that has its Date_Transaction column.
C8_DiagnosticWhenDateColumnPresent ==
    file.exists /\ "Date_Transaction" \in file.cols
        /\ expected_cols \ file.cols # {} =>
            /\ pc \in {"start", "read", "exit"}
            /\ pc = "exit" =>
                  exitMsg = {[kind |-> "colonnes manquantes",
                              missing |-> expected_cols \ file.cols,
                              expected |-> expected_cols]}

----------------------------------------------------------------------------
\* The distribution of the satisfaction scores (specification SpecSat).

\* Sheets of up to MaxSatRows rows that differ by their score only, 0 to 5,
\* in ascending order of score (the distribution does not depend on the
\* order of the rows).
ScoreLists ==
    UNION {{s \in [1..k -> 0..5] : \A i \in 1..(k - 1) : s[i] <= s[i + 1]} :
              k \in 0..MaxSatRows}

SatFiles ==
    BadFiles
    \cup {Sheet(expected_cols,
                [i \in 1..Len(s) |->
                    [Base EXCEPT !.Satisfaction_Client = Num(s[i])]]) :
            s \in ScoreLists}

InitSat == InitWith(SatFiles)

SpecSat == InitSat /\ [][Next]_vars

Abs(x) == IF x < 0 THEN -x ELSE x

\* The sum of the pct column, in hundredths of a percent.
PctSum(out) == SumSeq(Column(out.sat_dist, "pct"))

\* C3 as stated: for every non-empty Snapshot the percentages of the
\* satisfaction distribution add up to 100 within 0.01.
C3_PctSumWithinOneHundredth ==
    \A v \in view : v.dff # <<>> => Abs(PctSum(v.out) - 10000) <= 1

\* C3 amended: for every non-empty Snapshot the percentages add up to 100
\* within 0.005 times the number of distinct scores present.
C3_PctSumWithinHalfPerScore ==
    \A v \in view :
        v.dff # <<>> =>
            2 * Abs(PctSum(v.out) - 10000) <= Len(v.out.sat_dist)

\* Six scores of one record each: six times 16.67 is 100.02.
C3_Witness ==
    \E v \in view :
        /\ Len(v.out.sat_dist) = 6
        /\ PctSum(v.out) = 10002

----------------------------------------------------------------------------
\* The top products per category (specification SpecTop).

ProdNames == <<"p1", "p2", "p3", "p4", "p5", "p6", "p7", "p8">>

\* The rows of product i: one sale of 1, or a sale of 1 and a sale of 2.
ProdRows(i, two) ==
    LET r == [Base EXCEPT !.Produit = Text(ProdNames[i])]
    IN  IF two THEN <<r, [r EXCEPT !.Quantite = Num(2)]>> ELSE <<r>>

RECURSIVE ProdSheet(_, _)
ProdSheet(n, two) ==
    IF n = 0 THEN <<>> ELSE ProdSheet(n - 1, two) \o ProdRows(n, two[n])

\* Sheets with a Produit column: a sale in another category, a sale without
\* product name, and the sales of the first n products in category X.
TopFiles ==
    BadFiles
    \cup {Sheet(AllCols,
                <<[Base EXCEPT !.Categorie_Produit = Text("Y"),
                               !.Produit = Text("p1"), !.Quantite = Num(2)],
                  [Base EXCEPT !.Quantite = Num(4)]>>
                \o ProdSheet(n, two)) :
            n \in 0..MaxProducts, two \in [1..MaxProducts -> BOOLEAN]}
    \cup {Sheet(AllCols, <<[Base EXCEPT !.Quantite = Num(4)]>>)}
    \cup {Sheet(expected_cols, rows) : rows \in Seqs(GroupRows, 1)}

InitTop == InitWith(TopFiles)

SpecTop == InitTop /\ [][Next]_vars

\* The named products sold in category c among the rows d, and the quantity
\* sold of product p there.
ProductsIn(d, c) ==
    {d[i].Produit.s : i \in {j \in 1..Len(d) :
                               d[j].Categorie_Produit = c
                               /\ d[j].Produit.t = "text"}}
QuantitySold(d, c, p) ==
    LET Is(r) == r.Categorie_Produit = c /\ r.Produit = Text(p)
    IN  SumSeq(Column(SelectSeq(d, Is), "Quantite"))

Min(a, b) == IF a < b THEN a ELSE b

\* The table of category c in the view, as a set of at most one element.
TableOf(out, c) ==
    {out.top_products.tables[k].data :
        k \in {j \in 1..Len(out.top_products.tables) :
                  out.top_products.tables[j].Categorie = c}}

\* C10: with a Produit column, every category of the Snapshot lists k = min(5,
\* number of its products) products, ranked 1..k, in descending order of the
\* quantity sold, none of them sold less than a product left out; without the
\* column every filter, also one that matches nothing, gives the message that
\* the column is absent.
C10_TopProducts ==
    \A v \in view :
        IF "Produit" \notin columns
        THEN v.out.top_products
                 = [kind |-> "Colonne Produit absente", tables |-> <<>>]
        ELSE \A c \in {v.dff[i].Categorie_Produit : i \in 1..Len(v.dff)} :
                LET prods == ProductsIn(v.dff, c)
                    k == Min(TopN, Cardinality(prods))
                IN  /\ k = 0 => TableOf(v.out, c) = {}
                    /\ k > 0 => Cardinality(TableOf(v.out, c)) = 1
                    /\ \A t \in TableOf(v.out, c) :
                          /\ Len(t) = k
                          /\ \A r \in 1..k :
                                /\ t[r].Rank = r
                                /\ t[r].Produit \in prods
                                /\ t[r].Quantite
                                       = QuantitySold(v.dff, c, t[r].Produit)
                                /\ \A q \in 1..k :
                                      r < q => /\ t[r].Produit # t[q].Produit
                                               /\ t[r].Quantite >= t[q].Quantite
                                /\ \A p \in prods \ {t[q].Produit : q \in 1..k} :
                                      QuantitySold(v.dff, c, p) <= t[r].Quantite

\* A category with more than 5 products, of which the one left out of the
\* table sold less than every product listed.
C10_Witness ==
    \E v \in view : \E t \in TableOf(v.out, "X") :
        /\ Cardinality(ProductsIn(v.dff, "X")) > TopN
        /\ Len(t) = TopN
        /\ \E p \in ProductsIn(v.dff, "X") :
              QuantitySold(v.dff, "X", p) < t[TopN].Quantite

----------------------------------------------------------------------------
\* Invocations that overlap on two request threads (specification
\* SpecOverlap).  Line 199 is the only place where update_all reads df.

OverlapRows == {Base,
                [Base EXCEPT !.Date_Transaction = Blank],
                [Base EXCEPT !.Magasin = Text("B"),
                             !.Categorie_Produit = Text("Y"),
                             !.Mode_Paiement = Text("Q"),
                             !.Date_Transaction = Stamp(0)]}

OverlapFiles ==
    BadFiles \cup {Sheet(expected_cols, rows) :
                      rows \in Seqs(OverlapRows, MaxRows)}

InitOverlap == InitWith(OverlapFiles)

NextOverlap ==
    \/ Loader
    \/ \E w \in Workers : \E S \in FilterSpecs : Begin(w, S)
    \/ \E w \in Workers : Finish(w)

SpecOverlap == InitOverlap /\ [][NextOverlap]_vars

\* C4: whatever invocations came before or are in progress, df is the
\* Dataset the loader left, and what an invocation returns is what its
\* filter values give on that Dataset: the same as the first time.
C4_PureOfDataset ==
    pc = "ready" =>
        /\ df = loaded
        /\ \A w \in Workers : \A c \in call[w] : c.dff = loaded
        /\ \A v \in view :
              v.out = Aggregate(Filtrage(loaded, v.spec), columns)

\* An invocation has returned a Snapshot smaller than the Dataset while two
\* others, with different filter values, are in progress.
C4_Witness ==
    /\ \E v \in view : Len(v.dff) < Len(df)
    /\ \E c1 \in call["t1"] : \E c2 \in call["t2"] : c1.spec # c2.spec

====
